---- MODULE Spec2Model ----
(***************************************************************************)
(* Model of the Stock Price Viewer backend (src/app.py): the historical    *)
(* data pipeline _fetch_historical_data and the two request handlers       *)
(* get_stock_data and get_multiple_stocks.                                 *)
(*                                                                         *)
(* Representation choices                                                  *)
(*  - a str is a sequence of code points (ASCII), so that sorted() and     *)
(*    dict lookup work on the text of a key, not on the date it denotes;   *)
(*  - a date is its proleptic Gregorian ordinal (date.toordinal());        *)
(*  - a float price is an integer number of thousandths (mills); round(x,2)*)
(*    is exact round-half-even to a multiple of 10 mills; percent_change   *)
(*    is held in hundredths of a percent;                                  *)
(*  - a raw JSON field is [k, v]: k = "num" (v is the number), "bad" (text *)
(*    that float()/int() rejects) or "absent" (key missing in the dict).   *)
(***************************************************************************)
EXTENDS Integers, Sequences, FiniteSets, TLC

\* ------------------------------------------------------------------ bounds
\* largest number of date keys in one upstream series
MaxKeys == 2
\* longest symbol list of a batch request explored in full
MaxBatch == 2

\* ------------------------------------------------------- program constants
\* get_multiple_stocks: len(symbols) > 5
MaxSymbols == 5
\* timedelta(days=7)
WeekDays == 7
\* timedelta(days=30)
MonthDays == 30
\* timedelta(weeks=26)
HalfYearWeeks == 26

\* ---------------------------------------------------------------- strings
Range(s) == {s[i] : i \in DOMAIN s}

Min(S) == CHOOSE x \in S : \A y \in S : x <= y

\* Python str comparison a < b: by code point, a proper prefix is smaller
RECURSIVE StrLess(_, _)
StrLess(a, b) ==
    IF a = <<>> THEN b # <<>>
    ELSE IF b = <<>> THEN FALSE
    ELSE IF Head(a) # Head(b) THEN Head(a) < Head(b)
    ELSE StrLess(Tail(a), Tail(b))

\* sorted(time_series.keys())
RECURSIVE Sorted(_)
Sorted(S) ==
    IF S = {} THEN <<>>
    ELSE LET m == CHOOSE x \in S : \A y \in S \ {x} : StrLess(x, y)
         IN  <<m>> \o Sorted(S \ {m})

IsDigit(c) == c >= 48 /\ c <= 57

\* str.upper() on one code point (ASCII letters)
UpperChar(c) == IF c >= 97 /\ c <= 122 THEN c - 32 ELSE c

\* str.upper()
Upper(s) == [i \in DOMAIN s |-> UpperChar(s[i])]

\* str.strip(): drop leading and trailing blanks
RECURSIVE Strip(_)
Strip(s) ==
    IF s = <<>> THEN s
    ELSE IF Head(s) = 32 THEN Strip(Tail(s))
    ELSE IF s[Len(s)] = 32 THEN Strip(SubSeq(s, 1, Len(s) - 1))
    ELSE s

\* --------------------------------------------------------------- calendar
IsLeap(y) == (y % 4 = 0) /\ ((y % 100 # 0) \/ (y % 400 = 0))

DaysInMonth(y, m) ==
    IF m = 2 THEN (IF IsLeap(y) THEN 29 ELSE 28)
    ELSE IF m \in {4, 6, 9, 11} THEN 30 ELSE 31

DaysBeforeYear(y) ==
    (y - 1) * 365 + ((y - 1) \div 4) - ((y - 1) \div 100) + ((y - 1) \div 400)

RECURSIVE DaysBeforeMonth(_, _)
DaysBeforeMonth(y, m) ==
    IF m = 1 THEN 0 ELSE DaysBeforeMonth(y, m - 1) + DaysInMonth(y, m - 1)

\* date(y, m, d).toordinal()
ToOrdinal(y, m, d) == DaysBeforeYear(y) + DaysBeforeMonth(y, m) + d

\* the years the explored dates fall in
Years == 2023..2025

\* date.fromordinal(n) as <<year, month, day>>
FromOrdinal(n) ==
    LET y == CHOOSE yy \in Years :
                 DaysBeforeYear(yy) < n /\ n <= DaysBeforeYear(yy + 1)
        m == CHOOSE mm \in 1..12 :
                 /\ ToOrdinal(y, mm, 1) <= n
                 /\ n < ToOrdinal(y, mm, 1) + DaysInMonth(y, mm)
    IN  <<y, m, n - ToOrdinal(y, m, 1) + 1>>

\* ------------------------------------------------ formatting and parsing
\* decimal text of n, zero padded to w digits
RECURSIVE Digits(_, _)
Digits(n, w) ==
    IF w = 0 THEN <<>> ELSE Digits(n \div 10, w - 1) \o <<48 + (n % 10)>>

\* '%Y-%m-%d' of the day with ordinal n
IsoText(n) ==
    LET t == FromOrdinal(n)
    IN  Digits(t[1], 4) \o <<45>> \o Digits(t[2], 2) \o <<45>> \o Digits(t[3], 2)

\* IsoText tabulated over 2024, the year the gap filler walks in
IsoTexts == [n \in (DaysBeforeYear(2024) + 1)..DaysBeforeYear(2025) |-> IsoText(n)]

\* current_date.strftime('%Y-%m-%d')
StrFTime(n) == IsoTexts[n]

\* value of a run of digits
RECURSIVE NumVal(_)
NumVal(s) ==
    IF s = <<>> THEN 0 ELSE 10 * NumVal(SubSeq(s, 1, Len(s) - 1)) + (s[Len(s)] - 48)

\* positions of '-' in s
Dashes(s) == {i \in DOMAIN s : s[i] = 45}

\* datetime.strptime(s, '%Y-%m-%d'): %Y is four digits, %m and %d are one or
\* two digits (a leading zero is optional), the whole text must be consumed
\* and the date must exist.  The result is <<ok, ordinal>>.
StrPTime(s) ==
    IF Cardinality(Dashes(s)) # 2 THEN <<FALSE, 0>>
    ELSE
      LET d1 == Min(Dashes(s))
          d2 == Min(Dashes(s) \ {d1})
          ys == SubSeq(s, 1, d1 - 1)
          ms == SubSeq(s, d1 + 1, d2 - 1)
          ds == SubSeq(s, d2 + 1, Len(s))
          digits == \A c \in Range(ys) \cup Range(ms) \cup Range(ds) : IsDigit(c)
      IN  IF /\ Len(ys) = 4 /\ Len(ms) \in {1, 2} /\ Len(ds) \in {1, 2}
             /\ digits
             /\ NumVal(ms) \in 1..12
             /\ NumVal(ds) \in 1..31
             /\ NumVal(ds) <= DaysInMonth(NumVal(ys), NumVal(ms))
          THEN <<TRUE, ToOrdinal(NumVal(ys), NumVal(ms), NumVal(ds))>>
          ELSE <<FALSE, 0>>

\* int(datetime.combine(d, datetime.min.time()).timestamp()): seconds since
\* the epoch of local midnight of the day (ordinal 719163 is 1970-01-01)
Timestamp(n) == (n - 719163) * 86400

\* ------------------------------------------------------------ JSON fields
Num(n) == [k |-> "num", v |-> n]
Bad == [k |-> "bad", v |-> 0]
Absent == [k |-> "absent", v |-> 0]

\* date_data.get(name, default)
Get(fld, default) == IF fld.k = "absent" THEN Num(default) ELSE fld

\* float(x) / int(x) raise ValueError on text that is no number
Raises(fld) == fld.k = "bad"

\* round-half-even of num/den to an integer, den > 0
RoundDiv(num, den) ==
    LET q == num \div den
        r == num - q * den
    IN  IF 2 * r < den THEN q
        ELSE IF 2 * r > den THEN q + 1
        ELSE IF q % 2 = 0 THEN q ELSE q + 1

\* round(x, 2) of a value held in mills
Round2(x) == 10 * RoundDiv(x, 10)

\* ------------------------------------------------ _fetch_historical_data
None == [ok |-> FALSE]

\* function = 'TIME_SERIES_WEEKLY' if range_type == '6M' else 'TIME_SERIES_DAILY'
QueryFunction(range_type) ==
    IF range_type = "6M" THEN "TIME_SERIES_WEEKLY" ELSE "TIME_SERIES_DAILY"

\* the checks between the upstream call and the extraction of the series:
\* TRUE when the function returns None before it reads the series
Rejected(resp) ==
    \/ resp.transport
    \/ resp.status_code # 200
    \/ resp.error
    \/ resp.note
    \/ resp.information = "rate limit"
    \/ ~resp.has_series
    \/ DOMAIN resp.series = {}

\* cutoff_date
CutoffDate(range_type, today) ==
    IF range_type = "1W" THEN today - WeekDays
    ELSE IF range_type = "1M" THEN today - MonthDays
    ELSE IF range_type = "6M" THEN today - 7 * HalfYearWeeks
    ELSE today - MonthDays

\* FilteredDates with an unparseable key ending the request instead of being
\* skipped
FilteredDatesAbort(time_series, cutoff) ==
    IF \E k \in DOMAIN time_series : ~StrPTime(k)[1] THEN <<>>
    ELSE SelectSeq(Sorted(DOMAIN time_series),
                   LAMBDA k : StrPTime(k)[1] /\ StrPTime(k)[2] >= cutoff)

Keeps(k, cutoff) == StrPTime(k)[1] /\ StrPTime(k)[2] >= cutoff

\* filtered_dates: the keys that parse and are on or after the cutoff, in the
\* order of sorted(time_series.keys())
FilteredDates(time_series, cutoff) ==
    SelectSeq(Sorted(DOMAIN time_series), LAMBDA k : Keeps(k, cutoff))

\* range_type in ['1W', '1M']
Fills(range_type) == range_type \in {"1W", "1M"}

NoPoints == [raised |-> FALSE, dates |-> <<>>, prices |-> <<>>, volumes |-> <<>>]

\* the while loop of the gap filler from current_date to end_date; last is
\* <<>> for last_price None and <<last_price, last_volume>> otherwise
RECURSIVE Walk(_, _, _, _, _)
Walk(current_date, end_date, available_data, last, acc) ==
    IF current_date > end_date THEN acc
    ELSE
      LET date_str == StrFTime(current_date) IN
      IF date_str \in DOMAIN available_data THEN
        LET date_data == available_data[date_str]
            close == Get(date_data.close, 0)
            volume == Get(date_data.volume, 0)
        IN  IF Raises(close) \/ Raises(volume)
            THEN [acc EXCEPT !.raised = TRUE]
            ELSE Walk(current_date + 1, end_date, available_data,
                      <<close.v, volume.v>>,
                      [acc EXCEPT !.dates = Append(@, Timestamp(current_date)),
                                  !.prices = Append(@, close.v),
                                  !.volumes = Append(@, volume.v)])
      ELSE IF last # <<>> THEN
        Walk(current_date + 1, end_date, available_data, last,
             [acc EXCEPT !.dates = Append(@, Timestamp(current_date)),
                         !.prices = Append(@, last[1]),
                         !.volumes = Append(@, last[2])])
      ELSE Walk(current_date + 1, end_date, available_data, last, acc)

\* the gap-filling branch: available_data and the walk from start_date
GapFill(time_series, sorted_dates, today) ==
    LET start_date == StrPTime(sorted_dates[1])[2]
        available_data == [k \in Range(sorted_dates) |-> time_series[k]]
    IN  Walk(start_date, today, available_data, <<>>, NoPoints)

\* the else branch: one pass over sorted_dates, no filling; the timestamp is
\* appended before close and volume are converted
RECURSIVE Weekly(_, _, _)
Weekly(time_series, sorted_dates, acc) ==
    IF sorted_dates = <<>> THEN acc
    ELSE
      LET date_str == Head(sorted_dates)
          date_data == time_series[date_str]
          close == Get(date_data.close, 0)
          volume == Get(date_data.volume, 0)
          dated == [acc EXCEPT !.dates = Append(@, Timestamp(StrPTime(date_str)[2]))]
      IN  IF Raises(close) \/ Raises(volume)
          THEN Weekly(time_series, Tail(sorted_dates), dated)
          ELSE Weekly(time_series, Tail(sorted_dates),
                      [dated EXCEPT !.prices = Append(@, Round2(close.v)),
                                    !.volumes = Append(@, volume.v)])

\* dates, prices, volumes (and whether the branch raised)
Points(range_type, time_series, sorted_dates, today) ==
    IF Fills(range_type)
    THEN GapFill(time_series, sorted_dates, today)
    ELSE Weekly(time_series, sorted_dates, NoPoints)

\* current_price = prices[-1] if prices else 0
CurrentPrice(prices) == IF prices # <<>> THEN prices[Len(prices)] ELSE 0

\* PeriodChange with the percentage taken of the current price
PeriodChangeOfCurrent(prices) ==
    IF Len(prices) >= 2 THEN
      LET change == Round2(prices[Len(prices)] - prices[1])
      IN  IF prices[1] = 0 THEN <<TRUE, 0, 0>>
          ELSE <<FALSE, change, RoundDiv(change * 10000, prices[Len(prices)])>>
    ELSE <<FALSE, 0, 0>>

\* the period change: <<raised, change, percent_change>>; the division
\* raises ZeroDivisionError when the first price is 0
PeriodChange(prices) ==
    IF Len(prices) >= 2 THEN
      LET period_start_price == prices[1]
          change == Round2(CurrentPrice(prices) - period_start_price)
      IN  IF period_start_price = 0 THEN <<TRUE, 0, 0>>
          ELSE <<FALSE, change, RoundDiv(change * 10000, period_start_price)>>
    ELSE <<FALSE, 0, 0>>

\* the part of the function after the series is extracted
Summarize(range_type, time_series, today) ==
    LET sorted_dates == FilteredDates(time_series, CutoffDate(range_type, today)) IN
    IF sorted_dates = <<>> THEN None
    ELSE
      LET pts == Points(range_type, time_series, sorted_dates, today) IN
      IF pts.raised \/ pts.dates = <<>> THEN None
      ELSE
        LET current_price == CurrentPrice(pts.prices)
            pc == PeriodChange(pts.prices)
            latest_data == time_series[sorted_dates[Len(sorted_dates)]]
            high == Get(latest_data.high, current_price)
            low == Get(latest_data.low, current_price)
            open == Get(latest_data.open, current_price)
        IN  IF pc[1] \/ Raises(high) \/ Raises(low) \/ Raises(open) THEN None
            ELSE [ok |-> TRUE,
                  dates |-> pts.dates,
                  prices |-> pts.prices,
                  volumes |-> pts.volumes,
                  current_price |-> current_price,
                  change |-> pc[2],
                  percent_change |-> pc[3],
                  high |-> high.v,
                  low |-> low.v,
                  open |-> open.v]

\* _fetch_historical_data(symbol, range_type) for the upstream response resp
\* on the day today; every exception ends in "except Exception: return None"
FetchHistoricalData(symbol, range_type, resp, today) ==
    IF Rejected(resp) THEN None
    ELSE Summarize(range_type, resp.series, today)

\* ----------------------------------------------------------------- inputs
\* the text of a date key; pad = FALSE writes month and day without a
\* leading zero
DateText(y, m, d, pad) ==
    LET w(n) == IF pad \/ n >= 10 THEN 2 ELSE 1
    IN  Digits(y, 4) \o <<45>> \o Digits(m, w(m)) \o <<45>> \o Digits(d, w(d))

\* the first day on which requests are served: 2024-10-02
FirstDay == ToOrdinal(2024, 10, 2)
\* the last one
LastDay == FirstDay + 1

\* "2024-09-31": no such day
NoDateKeys == { Digits(2024, 4) \o <<45>> \o Digits(9, 2) \o <<45>> \o Digits(31, 2) }

\* keys in the window of 1W, of 1M only and of 6M only, a key after today,
\* and one day written with and without leading zeros
DateKeys ==
    { DateText(2024, 10, 1, TRUE),
      DateText(2024, 9, 30, FALSE),
      DateText(2024, 9, 30, TRUE),
      DateText(2024, 9, 10, TRUE),
      DateText(2024, 5, 3, TRUE),
      DateText(2024, 10, 4, TRUE) }

Keys == DateKeys \cup NoDateKeys

Sample(o, h, l, c, v) == [open |-> o, high |-> h, low |-> l, close |-> c, volume |-> v]

Samples ==
    { Sample(Num(10000), Num(10500), Num(9500), Num(10000), Num(100)),
      Sample(Absent, Absent, Absent, Num(10125), Num(200)),
      Sample(Num(0), Num(0), Num(0), Absent, Absent),
      Sample(Num(10000), Bad, Num(10000), Bad, Num(100)),
      Sample(Num(9000), Num(9996), Num(9000), Num(9996), Bad) }

SeriesOver(K) == UNION { [D -> Samples] : D \in { X \in SUBSET K : Cardinality(X) <= MaxKeys } }

AllSeries == SeriesOver(Keys)

NoSeries == [k \in {} |-> Sample(Absent, Absent, Absent, Absent, Absent)]

Upstream(tr, st, er, no, inf, has, ser) ==
    [transport |-> tr, status_code |-> st, error |-> er, note |-> no,
     information |-> inf, has_series |-> has, series |-> ser]

\* a JSON body with a time series and no marker
Ok(ser) == Upstream(FALSE, 200, FALSE, FALSE, "absent", TRUE, ser)

\* the responses that carry no series: a network error or timeout, an HTTP
\* error, 'Error Message', 'Note', 'Information' with and without the
\* rate-limit phrase, and a body without a time series key
Failures ==
    { Upstream(TRUE, 0, FALSE, FALSE, "absent", FALSE, NoSeries),
      Upstream(FALSE, 500, FALSE, FALSE, "absent", FALSE, NoSeries),
      Upstream(FALSE, 200, TRUE, FALSE, "absent", FALSE, NoSeries),
      Upstream(FALSE, 200, FALSE, TRUE, "absent", FALSE, NoSeries),
      Upstream(FALSE, 200, FALSE, FALSE, "rate limit", FALSE, NoSeries),
      Upstream(FALSE, 200, FALSE, FALSE, "other", FALSE, NoSeries),
      Upstream(FALSE, 200, FALSE, FALSE, "absent", FALSE, NoSeries) }

Responses == Failures \cup { Ok(ser) : ser \in AllSeries }

\* the responses the batch endpoint is explored with
BatchSeries ==
    { [k \in {DateText(2024, 9, 30, TRUE)} |->
          Sample(Num(10000), Num(10500), Num(9500), Num(10000), Num(100))],
      [k \in {DateText(2024, 9, 10, TRUE), DateText(2024, 10, 1, TRUE)} |->
          Sample(Absent, Absent, Absent, Num(10125), Num(200))] }

BatchResponses ==
    { Upstream(FALSE, 200, TRUE, FALSE, "absent", FALSE, NoSeries),
      Upstream(FALSE, 200, FALSE, TRUE, "absent", FALSE, NoSeries) }
      \cup { Ok(ser) : ser \in BatchSeries }

BatchRanges == {"1M", "6M"}

\* "1Y" is not recognized
Ranges == {"1W", "1M", "6M", "1Y"}

\* " Msft " and " "
RawSymbols == { <<32, 77, 115, 102, 116, 32>>, <<32>> }

\* "AAPL", "aapl " and "msft"
BatchSymbols == { <<65, 65, 80, 76>>, <<97, 97, 112, 108, 32>>, <<109, 115, 102, 116>> }

RECURSIVE SeqsUpTo(_, _)
SeqsUpTo(S, n) ==
    IF n = 0 THEN {<<>>}
    ELSE LET R == SeqsUpTo(S, n - 1)
         IN  R \cup { Append(q, x) : q \in R, x \in S }

\* the symbol lists of the batch requests: every list up to MaxBatch, and
\* lists at and above the limit of MaxSymbols
SymbolLists ==
    SeqsUpTo(BatchSymbols, MaxBatch)
      \cup { [i \in 1..n |-> <<65, 65, 80, 76>>] : n \in {MaxSymbols + 1} }

\* ------------------------------------------------------------------ state
VARIABLES
    today,        \* datetime.now().date()
    pc,           \* "idle", "loop" (inside the for loop of the batch), "done"
    request,      \* the request being served
    idx,          \* position of the for loop in symbols
    stocks_data,  \* stocks_data of get_multiple_stocks
    fetched,      \* the upstream queries sent for this request, in order
    call,         \* the last call of _fetch_historical_data and its result
    response      \* the HTTP response of the last request

vars == <<today, pc, request, idx, stocks_data, fetched, call, response>>

NoCall == [made |-> FALSE, range_type |-> "", resp |-> Upstream(TRUE, 0, FALSE, FALSE, "absent", FALSE, NoSeries),
           today |-> 0, result |-> None]

NoData == [ok |-> FALSE]

Reply(status, error, data) == [status |-> status, error |-> error, data |-> data]

Init ==
    /\ today = FirstDay
    /\ pc = "idle"
    /\ request = [endpoint |-> "", symbols |-> <<>>, range |-> ""]
    /\ idx = 0
    /\ stocks_data = <<>>
    /\ fetched = <<>>
    /\ call = NoCall
    /\ response = Reply(0, "", NoData)

\* the record of one call of _fetch_historical_data
Called(symbol, range_type, resp) ==
    [made |-> TRUE, range_type |-> range_type, resp |-> resp, today |-> today,
     result |-> FetchHistoricalData(symbol, range_type, resp, today)]

\* the upstream query of one call: requests.get(..., params)
Query(symbol, range_type) == [symbol |-> symbol, function |-> QueryFunction(range_type)]

\* the body of get_stock_data after the symbol check
StockDataReply(symbol, historical_data) ==
    IF ~historical_data.ok
    THEN Reply(400, "No data available", NoData)
    ELSE Reply(200, "", [historical_data EXCEPT !.ok = TRUE] @@ [symbol |-> symbol])

\* GET /api/stock_data?symbol=raw&range=range_type
GetStockData(raw, range_type, resp) ==
    /\ pc = "idle"
    /\ LET symbol == Strip(Upper(raw)) IN
       /\ request' = [endpoint |-> "stock_data", symbols |-> <<raw>>, range |-> range_type]
       /\ IF symbol = <<>>
          THEN /\ response' = Reply(400, "Stock symbol is required", NoData)
               /\ fetched' = <<>>
               /\ call' = NoCall
          ELSE /\ call' = Called(symbol, range_type, resp)
               /\ fetched' = <<Query(symbol, range_type)>>
               /\ response' = StockDataReply(symbol, call'.result)
    /\ pc' = "done"
    /\ idx' = 0
    /\ stocks_data' = <<>>
    /\ UNCHANGED today

\* POST /api/multiple_stocks up to the for loop
BatchStart(symbols, range_type) ==
    /\ pc = "idle"
    /\ request' = [endpoint |-> "multiple_stocks", symbols |-> symbols, range |-> range_type]
    /\ fetched' = <<>>
    /\ call' = NoCall
    /\ stocks_data' = <<>>
    /\ IF symbols = <<>>
       THEN /\ response' = Reply(400, "No symbols provided", NoData)
            /\ pc' = "done" /\ idx' = 0
       ELSE IF Len(symbols) > MaxSymbols
       THEN /\ response' = Reply(400, "Maximum 5 stocks can be compared", NoData)
            /\ pc' = "done" /\ idx' = 0
       ELSE /\ response' = Reply(0, "", NoData)
            /\ pc' = "loop" /\ idx' = 1
    /\ UNCHANGED today

\* the entry of stocks_data for one symbol
Stock(symbol, hd) ==
    [symbol |-> symbol, dates |-> hd.dates, prices |-> hd.prices,
     current_price |-> hd.current_price, change |-> hd.change,
     percent_change |-> hd.percent_change]

\* one iteration of "for symbol in symbols"
BatchStep(resp) ==
    /\ pc = "loop"
    /\ idx <= Len(request.symbols)
    /\ LET symbol == Strip(Upper(request.symbols[idx])) IN
       /\ call' = Called(symbol, request.range, resp)
       /\ fetched' = Append(fetched, Query(symbol, request.range))
       /\ stocks_data' = IF call'.result.ok
                         THEN Append(stocks_data, Stock(symbol, call'.result))
                         ELSE stocks_data
    /\ idx' = idx + 1
    /\ UNCHANGED <<today, pc, request, response>>

\* return jsonify({'stocks': stocks_data})
BatchFinish ==
    /\ pc = "loop"
    /\ idx > Len(request.symbols)
    /\ response' = Reply(200, "", [ok |-> TRUE, stocks |-> stocks_data])
    /\ pc' = "done"
    /\ UNCHANGED <<today, request, idx, stocks_data, fetched, call>>

\* the response is sent; nothing of the request is kept
Close ==
    /\ pc = "done"
    /\ pc' = "idle"
    /\ request' = [endpoint |-> "", symbols |-> <<>>, range |-> ""]
    /\ idx' = 0
    /\ stocks_data' = <<>>
    /\ fetched' = <<>>
    /\ call' = NoCall
    /\ response' = Reply(0, "", NoData)
    /\ UNCHANGED today

\* midnight passes between two requests
Tick ==
    /\ pc = "idle"
    /\ today < LastDay
    /\ today' = today + 1
    /\ UNCHANGED <<pc, request, idx, stocks_data, fetched, call, response>>

Next ==
    \/ \E raw \in RawSymbols, r \in Ranges, resp \in Responses : GetStockData(raw, r, resp)
    \/ \E symbols \in SymbolLists, r \in BatchRanges : BatchStart(symbols, r)
    \/ \E resp \in BatchResponses : BatchStep(resp)
    \/ BatchFinish
    \/ Close
    \/ Tick

Spec == Init /\ [][Next]_vars

\* ------------------------------------------------------------ properties
\* _fetch_historical_data returned a summary
SummaryReturned == call.made /\ call.result.ok

\* the keys of the last call's series that parse and are on or after the cutoff
Window == { k \in DOMAIN call.resp.series : Keeps(k, CutoffDate(call.range_type, call.today)) }

\* the calendar days of those keys
ObservedDays == { StrPTime(k)[2] : k \in Window }

\* the calendar day of a timestamp
DayOf(ts) == ts \div 86400 + 719163

Abs(x) == IF x < 0 THEN -x ELSE x

\* every field of every sample of the last call's series is a number or absent
NumericFields ==
    \A k \in DOMAIN call.resp.series :
        LET s == call.resp.series[k]
        IN  "bad" \notin {s.open.k, s.high.k, s.low.k, s.close.k, s.volume.k}

\* every key of the last call's series that parses is written as strftime
\* writes it, with leading zeros
ZeroPaddedKeys ==
    \A k \in DOMAIN call.resp.series : StrPTime(k)[1] => k = StrFTime(StrPTime(k)[2])

\* C1: whenever a summary is returned, for 1W and 1M the dates are one per
\* calendar day from the first observed day in the window through today, and
\* for 6M one per sample in the window (stated for series of numeric fields)
C1_OnePointPerDay ==
    (SummaryReturned /\ NumericFields) =>
      LET first == Min(ObservedDays)
          dates == call.result.dates
      IN  /\ call.range_type \in {"1W", "1M"} =>
               dates = [i \in 1..(call.today - first + 1) |-> Timestamp(first + i - 1)]
          /\ call.range_type = "6M" =>
               /\ Len(dates) = Cardinality(Window)
               /\ Range(dates) = { Timestamp(d) : d \in ObservedDays }

\* C2: the dates of every summary are strictly ascending, whatever keys the
\* filter accepts (stated for series of numeric fields)
C2_StrictlyAscending ==
    (SummaryReturned /\ NumericFields) =>
      \A i \in 1..(Len(call.result.dates) - 1) :
          call.result.dates[i] < call.result.dates[i + 1]

\* C3: a call with an unrecognized range code sends the query of 1M and
\* returns what the call with 1M returns for the same response and day
\* (stated for series of numeric fields and zero-padded keys)
C3_UnrecognizedIs1M ==
    (/\ call.made
     /\ call.range_type \notin {"1W", "1M", "6M"}
     /\ NumericFields
     /\ ZeroPaddedKeys) =>
      /\ QueryFunction(call.range_type) = QueryFunction("1M")
      /\ call.result = FetchHistoricalData(<<>>, "1M", call.resp, call.today)

\* the upstream response carries a rate-limit marker
RateLimited(resp) ==
    /\ ~resp.transport
    /\ resp.status_code = 200
    /\ resp.note \/ resp.information = "rate limit"

\* C4: in the batch endpoint, once the response for a symbol carries a
\* rate-limit marker the request is over: status 429, stocks holds what was
\* collected before, and no later symbol is fetched
C4_BatchAbortsOnRateLimit ==
    (request.endpoint = "multiple_stocks" /\ call.made /\ RateLimited(call.resp)) =>
      /\ pc = "done"
      /\ response.status = 429
      /\ response.data = [ok |-> TRUE, stocks |-> stocks_data]

\* the percent change p (hundredths of a percent) is change / first * 100
\* rounded to two decimals, ties to even
NearestPercent(p, change, first) ==
    /\ 2 * Abs(change * 10000 - p * first) <= first
    /\ 2 * Abs(change * 10000 - p * first) = first => p % 2 = 0

\* c (mills) is x rounded to two decimals, ties to even
NearestCent(c, x) ==
    /\ c % 10 = 0
    /\ 2 * Abs(x - c) <= 10
    /\ 2 * Abs(x - c) = 10 => (c \div 10) % 2 = 0

\* C5: in every summary, with two or more prices the first price is not 0,
\* change is last - first rounded to 2 decimals and percent_change is
\* change / first * 100 rounded to 2 decimals; with fewer both are 0
C5_PeriodChange ==
    SummaryReturned =>
      LET p == call.result.prices IN
      IF Len(p) >= 2
      THEN /\ p[1] > 0
           /\ NearestCent(call.result.change, p[Len(p)] - p[1])
           /\ NearestPercent(call.result.percent_change, call.result.change, p[1])
      ELSE call.result.change = 0 /\ call.result.percent_change = 0

\* a summary with two prices whose difference is not a whole number of cents
C5_Witness ==
    /\ SummaryReturned
    /\ Len(call.result.prices) >= 2
    /\ call.result.change # 0
    /\ call.result.change # call.result.prices[Len(call.result.prices)] - call.result.prices[1]
    /\ call.result.percent_change < 0

\* C6: the status of /api/stock_data is 500 on a transport failure, 429 on a
\* rate-limit marker, 400 on an error marker or when no summary results, 200
\* on success
C6_StatusByOutcome ==
    (request.endpoint = "stock_data" /\ pc = "done" /\ call.made) =>
      response.status =
        IF call.resp.transport THEN 500
        ELSE IF RateLimited(call.resp) THEN 429
        ELSE IF call.result.ok THEN 200
        ELSE 400

\* two entries of the list are equal after upper() and strip()
HasDuplicates(symbols) ==
    \E i, j \in DOMAIN symbols : i # j /\ Strip(Upper(symbols[i])) = Strip(Upper(symbols[j]))

\* C7: a batch request within the size limit whose list has a duplicate is
\* answered 400 before any symbol is fetched
C7_DuplicatesRejected ==
    (/\ request.endpoint = "multiple_stocks"
     /\ Len(request.symbols) <= MaxSymbols
     /\ HasDuplicates(request.symbols)) =>
      /\ pc = "done"
      /\ response.status = 400
      /\ fetched = <<>>

\* the response with the keys that do not parse removed from its series
Parseable(resp) ==
    [resp EXCEPT !.series =
        [k \in { x \in DOMAIN resp.series : StrPTime(x)[1] } |-> resp.series[k]]]

\* C8 (amended): the result of a call equals the result for the same series
\* without the keys that do not parse as a date
C8_UnparseableSkipped ==
    call.made =>
      call.result = FetchHistoricalData(<<>>, call.range_type, Parseable(call.resp), call.today)

\* a summary from a series that has a key that does not parse
C8_Witness ==
    /\ SummaryReturned
    /\ \E k \in DOMAIN call.resp.series : ~StrPTime(k)[1]
    /\ Len(call.result.dates) >= 2

\* every sample of the last call's series has a close above 0
PositiveCloses ==
    \A k \in DOMAIN call.resp.series :
        call.resp.series[k].close.k = "num" /\ call.resp.series[k].close.v > 0

\* C8 as claimed: the same, and a summary is returned whenever some key that
\* parses is on or after the cutoff (stated for series of numeric fields and
\* positive closes whose parseable keys are zero-padded)
C8_SummaryWheneverInWindow ==
    (/\ call.made
     /\ ~Rejected(call.resp)
     /\ NumericFields
     /\ PositiveCloses
     /\ ZeroPaddedKeys) =>
      /\ call.result = FetchHistoricalData(<<>>, call.range_type, Parseable(call.resp), call.today)
      /\ Window # {} => call.result.ok

\* C9: for 1W and 1M, every point carries close and volume of a sample of the
\* latest observed day on or before the point's day, and there is such a day
\* (stated for series of numeric fields)
C9_LastKnownValue ==
    (SummaryReturned /\ NumericFields /\ call.range_type \in {"1W", "1M"}) =>
      \A i \in DOMAIN call.result.dates :
        LET d == DayOf(call.result.dates[i])
            before == { o \in ObservedDays : o <= d }
        IN  /\ before # {}
            /\ \E k \in Window :
                 /\ StrPTime(k)[2] = -Min({ -o : o \in before })
                 /\ call.result.prices[i] = Get(call.resp.series[k].close, 0).v
                 /\ call.result.volumes[i] = Get(call.resp.series[k].volume, 0).v

\* C10: in every summary dates, prices and volumes have one length, are not
\* empty, and current_price is the last price
C10_SameLength ==
    SummaryReturned =>
      /\ Len(call.result.dates) = Len(call.result.prices)
      /\ Len(call.result.dates) = Len(call.result.volumes)
      /\ Len(call.result.dates) > 0
      /\ call.result.current_price = call.result.prices[Len(call.result.prices)]

====
